---- MODULE Spec2Model ----
(***************************************************************************)
(* The metric scorer of analysis.py: three tables are read, left-joined on *)
(* the constituency key, national baselines are computed once, every row   *)
(* is scored (SHS, MPI, APS) and the result table is written.              *)
(*                                                                         *)
(* Numbers are exact rationals [k |-> "num", n, d] in lowest terms with    *)
(* d > 0.  The other values a Python/numpy scalar can take here are kept   *)
(* apart: NaN ("nan"; n = 1 marks the np.nan object itself, n = 0 any      *)
(* other NaN object), +/- infinity ("inf", n = +/-1), None ("none") and a  *)
(* raised exception ("raise").                                             *)
(***************************************************************************)
EXTENDS Integers, Sequences, FiniteSets, TLC

VARIABLES
    pc,         \* position of the script
    files,      \* the three input files on disk: "ok", "absent" or "unparseable"
    tables,     \* contents of the three files (demo: sequence of rows; migration, system: sets of rows)
    frames,     \* migration_df, system_df, demo_df once read
    dropped,    \* expected numeric columns that none of the files carries
    df,         \* the joined table (sequence of rows)
    columns,    \* the columns of df
    baseline,   \* the national baselines
    i,          \* number of rows of df already scored
    results,    \* the list `results`
    written,    \* how many times pc_final_metrics.csv was written
    output,     \* content of pc_final_metrics.csv
    call,       \* the last direct call of a helper: [fn, args, res]
    fetch,      \* fetch_constituencies.py: its position, lists and loop index
    gen         \* synthetic_generation.py: the system-load row being generated

vars == <<pc, files, tables, frames, dropped, df, columns, baseline, i, results, written, output, call,
          fetch, gen>>

----------------------------------------------------------------------------
(* Bounds of the model *)

MaxRows == 2      \* constituencies in the demographics table
MaxVal  == 2      \* largest number in an input field
MaxArg  == 3      \* largest number passed in a direct call of safe_div or deviation_score
MaxLen  == 3      \* longest sub-score list in a direct call of normalize_partial
MaxW    == 2      \* largest weight in a direct call of normalize_partial

----------------------------------------------------------------------------
(* Scalars *)

RECURSIVE GCD(_, _)
GCD(a, b) == IF b = 0 THEN a ELSE GCD(b, a % b)

AbsInt(x) == IF x < 0 THEN -x ELSE x

\* the rational n/d (d # 0) in lowest terms
R(n, d) ==
    LET g == GCD(AbsInt(n), AbsInt(d))
        s == IF d < 0 THEN -1 ELSE 1
    IN  [k |-> "num", n |-> (s * n) \div g, d |-> (s * d) \div g]

I(n) == [k |-> "num", n |-> n, d |-> 1]

NaN      == [k |-> "nan", n |-> 0, d |-> 1]    \* a NaN object other than np.nan
NpNaN    == [k |-> "nan", n |-> 1, d |-> 1]    \* the object np.nan
PosInf   == [k |-> "inf", n |-> 1, d |-> 1]
NegInf   == [k |-> "inf", n |-> -1, d |-> 1]
None     == [k |-> "none", n |-> 0, d |-> 1]
Raise    == [k |-> "raise", n |-> 0, d |-> 1]

IsNum(x)   == x.k = "num"
IsNaN(x)   == x.k = "nan"
IsInf(x)   == x.k = "inf"
IsRaise(x) == x.k = "raise"

Sign(x) == IF x.n > 0 THEN 1 ELSE IF x.n < 0 THEN -1 ELSE 0
InfOf(s) == IF s > 0 THEN PosInf ELSE NegInf

\* pd.isna on a scalar: None and NaN are missing
isna(x) == x.k \in {"nan", "none"}

\* Python == on numbers (NaN equals nothing, None equals only None)
PyEq(a, b) ==
    CASE IsNum(a) /\ IsNum(b) -> a.n = b.n /\ a.d = b.d
      [] IsInf(a) /\ IsInf(b) -> a.n = b.n
      [] a.k = "none" /\ b.k = "none" -> TRUE
      [] OTHER -> FALSE

\* float arithmetic; an operand None raises TypeError, an exception propagates
Bad(a, b) == a.k \in {"none", "raise"} \/ b.k \in {"none", "raise"}

Add(a, b) ==
    CASE Bad(a, b) -> Raise
      [] IsNaN(a) \/ IsNaN(b) -> NaN
      [] IsInf(a) /\ IsInf(b) -> IF a.n = b.n THEN a ELSE NaN
      [] IsInf(a) -> a
      [] IsInf(b) -> b
      [] OTHER -> R(a.n * b.d + b.n * a.d, a.d * b.d)

Neg(a) ==
    CASE a.k \in {"none", "raise"} -> Raise
      [] IsNaN(a) -> NaN
      [] OTHER -> [a EXCEPT !.n = -a.n]

Sub(a, b) == Add(a, Neg(b))

Abs(a) ==
    CASE a.k \in {"none", "raise"} -> Raise
      [] IsNaN(a) -> NaN
      [] OTHER -> [a EXCEPT !.n = AbsInt(a.n)]

Mul(a, b) ==
    CASE Bad(a, b) -> Raise
      [] IsNaN(a) \/ IsNaN(b) -> NaN
      [] IsInf(a) \/ IsInf(b) ->
            IF Sign(a) * Sign(b) = 0 THEN NaN ELSE InfOf(Sign(a) * Sign(b))
      [] OTHER -> R(a.n * b.n, a.d * b.d)

\* numpy / pandas true division: x/0 is +/-inf, 0/0 is NaN, nothing raises
NpDiv(a, b) ==
    CASE Bad(a, b) -> Raise
      [] IsNaN(a) \/ IsNaN(b) -> NaN
      [] IsInf(a) /\ IsInf(b) -> NaN
      [] IsInf(a) -> InfOf(Sign(a) * (IF Sign(b) < 0 THEN -1 ELSE 1))
      [] IsInf(b) -> I(0)
      [] b.n = 0 -> IF a.n = 0 THEN NaN ELSE InfOf(Sign(a))
      [] OTHER -> R(a.n * b.d, a.d * b.n)

\* Python float division: a zero divisor raises ZeroDivisionError
PyDiv(a, b) ==
    IF IsNum(b) /\ b.n = 0 /\ ~Bad(a, b) THEN Raise ELSE NpDiv(a, b)

Less(a, b) == a.n * b.d < b.n * a.d     \* on numbers

\* round(x, 4): to the nearest multiple of 1/10000, ties to even
Scale == 10000

round4(x) ==
    IF ~IsNum(x) THEN x
    ELSE LET num == x.n * Scale
             q   == num \div x.d
             r2  == 2 * (num - q * x.d)
             up  == r2 > x.d \/ (r2 = x.d /\ q % 2 = 1)
         IN  R(IF up THEN q + 1 ELSE q, Scale)

----------------------------------------------------------------------------
(* Sequences *)

RECURSIVE SumSeq(_)
SumSeq(s) == IF s = <<>> THEN I(0) ELSE Add(SumSeq(SubSeq(s, 1, Len(s) - 1)), s[Len(s)])

NotNaN(x) == ~IsNaN(x)

\* variant: the first entry that is a value stands for the whole column
mean_first(s) ==
    LET v == SelectSeq(s, NotNaN)
    IN  IF v = <<>> THEN NaN ELSE v[1]

\* Series.mean(): NaN entries skipped, NaN for no entry left, infinities kept
mean(s) ==
    LET v == SelectSeq(s, NotNaN)
    IN  IF v = <<>> THEN NaN ELSE NpDiv(SumSeq(v), I(Len(v)))

\* np.nanmean: as mean (all-NaN gives NaN with a warning)
nanmean(s) == mean(s)

RECURSIVE MaxSeq(_)
MaxSeq(s) ==
    IF Len(s) = 1 THEN s[1]
    ELSE LET m == MaxSeq(SubSeq(s, 1, Len(s) - 1))
         IN  IF Less(m, s[Len(s)]) THEN s[Len(s)] ELSE m

\* Series.max(): NaN entries skipped, NaN for no entry left
max(s) ==
    LET v == SelectSeq(s, NotNaN)
    IN  IF v = <<>> THEN NaN ELSE MaxSeq(v)

----------------------------------------------------------------------------
(* The helpers of analysis.py *)

\* b in (0, None, np.nan): equality or identity with a member of the tuple
InGuardTuple(b) == PyEq(b, I(0)) \/ b.k = "none" \/ b = NpNaN

\* variant: an invalid division gives 0 instead of NaN
safe_div_zero(a, b) == IF ~InGuardTuple(b) THEN PyDiv(a, b) ELSE I(0)

safe_div(a, b) == IF ~InGuardTuple(b) THEN PyDiv(a, b) ELSE NpNaN

\* variant: the score is clamped at 0
deviation_score_clamped(value, reference) ==
    IF isna(value) \/ isna(reference) \/ PyEq(reference, I(0))
    THEN NpNaN
    ELSE LET x == Sub(I(1), PyDiv(Abs(Sub(value, reference)), reference))
         IN  IF IsNum(x) /\ x.n < 0 THEN I(0) ELSE x

deviation_score(value, reference) ==
    IF isna(value) \/ isna(reference) \/ PyEq(reference, I(0))
    THEN NpNaN
    ELSE Sub(I(1), PyDiv(Abs(Sub(value, reference)), reference))

\* zip(scores, weights): the pairs up to the shorter length
Zip(scores, weights) ==
    LET n == IF Len(scores) < Len(weights) THEN Len(scores) ELSE Len(weights)
    IN  [j \in 1..n |-> <<scores[j], weights[j]>>]

PairValid(p) == ~isna(p[1])

\* variant: a missing score counts as 0 and keeps its weight in the denominator
normalize_partial_zero_fill(scores, weights) ==
    LET z == Zip(scores, weights)
        valid == SelectSeq(z, PairValid)
    IN  IF valid = <<>> THEN NpNaN
        ELSE PyDiv(SumSeq([j \in 1..Len(valid) |-> Mul(valid[j][1], valid[j][2])]),
                   SumSeq([j \in 1..Len(z) |-> z[j][2]]))

normalize_partial(scores, weights) ==
    LET valid == SelectSeq(Zip(scores, weights), PairValid)
        total_weight == SumSeq([j \in 1..Len(valid) |-> valid[j][2]])
    IN  IF valid = <<>> THEN NpNaN
        ELSE PyDiv(SumSeq([j \in 1..Len(valid) |-> Mul(valid[j][1], valid[j][2])]),
                   total_weight)

----------------------------------------------------------------------------
(* Tables *)

FileNames == {"MIGRATION_FILE", "SYSTEM_LOAD_FILE", "DEMOGRAPHIC_FILE"}

KeyColumns  == {"pc_id", "state", "constituency_name"}
AgeColumns  == <<"age_18_25", "age_26_40", "age_41_60", "age_60_plus">>
DemoFields  == {"female_voters", "total_registered_voters", "age_18_25", "age_26_40",
                "age_41_60", "age_60_plus", "literacy_rate_percent",
                "last_election_turnout_percent"}
MigFields   == {"net_migration", "form6_addition_requests"}
SysFields   == {"rejected", "total_requests", "objections_raised", "cases_per_officer"}
NumericFields == DemoFields \cup MigFields \cup SysFields

\* columns read while the baselines are computed (lines 44-64)
BaselineColumns == {"age_18_25", "age_26_40", "age_41_60", "age_60_plus",
                    "literacy_rate_percent", "last_election_turnout_percent",
                    "form6_addition_requests", "rejected", "total_requests",
                    "objections_raised", "cases_per_officer"}
\* columns read while a row is scored (lines 75-148)
RowColumns == NumericFields

Restrict(f, S) == [x \in S |-> f[x]]

\* variant: the join is on pc_id alone
SameKey_pc_id_only(a, b) == a["pc_id"] = b["pc_id"]

SameKey(a, b) == \A c \in KeyColumns : a[c] = b[c]

RECURSIVE SetToSeq(_)
SetToSeq(S) ==
    IF S = {} THEN <<>>
    ELSE LET x == CHOOSE y \in S : TRUE IN <<x>> \o SetToSeq(S \ {x})

RECURSIVE Flatten(_)
Flatten(ss) == IF ss = <<>> THEN <<>> ELSE Head(ss) \o Flatten(Tail(ss))

\* left.merge(right, on=[pc_id, state, constituency_name], how="left"): every left
\* row in order, once per right row with the same key, or once with the right
\* columns NaN when no right row has its key
merge(left, right, rightCols) ==
    LET rowsFor(l) ==
            LET m == {r \in right : SameKey(l, r)}
            IN  IF m = {} THEN << l @@ [c \in rightCols |-> NaN] >>
                ELSE LET ms == SetToSeq(m)
                     IN  [j \in 1..Len(ms) |-> l @@ Restrict(ms[j], rightCols)]
    IN  Flatten([j \in 1..Len(left) |-> rowsFor(left[j])])

Column(d, c) == [j \in 1..Len(d) |-> d[j][c]]

\* Series / Series, element by element
SeriesDiv(a, b) == [j \in 1..Len(a) |-> NpDiv(a[j], b[j])]

----------------------------------------------------------------------------
(* Baselines and scores *)

IDEAL_GENDER_RATIO == R(1, 2)

SHS_WEIGHTS == <<R(25, 100), R(30, 100), R(20, 100), R(25, 100)>>
MPI_WEIGHTS == <<R(6, 10), R(4, 10)>>
APS_WEIGHTS == <<R(40, 100), R(35, 100), R(25, 100)>>

NoBaseline == [computed |-> FALSE]

Baselines(d) ==
    [computed |-> TRUE,
     national_age_avg |-> [k \in 1..4 |-> mean(Column(d, AgeColumns[k]))],
     national_literacy_avg |-> mean(Column(d, "literacy_rate_percent")),
     national_turnout_avg |-> mean(Column(d, "last_election_turnout_percent")),
     national_form6_avg |-> mean(Column(d, "form6_addition_requests")),
     national_rejection_rate_avg |->
         mean(SeriesDiv(Column(d, "rejected"), Column(d, "total_requests"))),
     national_objection_rate_avg |->
         mean(SeriesDiv(Column(d, "objections_raised"), Column(d, "total_requests"))),
     national_max_cases_per_officer |-> max(Column(d, "cases_per_officer"))]

\* variant: the ideal is taken to be a ratio of 1
GBS_ideal_one(row, bl) ==
    deviation_score(safe_div(row["female_voters"], row["total_registered_voters"]), I(1))

GBS(row, bl) ==
    deviation_score(safe_div(row["female_voters"], row["total_registered_voters"]),
                    IDEAL_GENDER_RATIO)

\* variant: np.mean in place of np.nanmean, one missing bracket makes the mean NaN
ADS_plain_mean(row, bl) ==
    LET terms == [k \in 1..4 |-> Abs(Sub(row[AgeColumns[k]], bl.national_age_avg[k]))]
    IN  Sub(I(1), IF \E k \in 1..4 : IsNaN(terms[k]) THEN NaN
                  ELSE NpDiv(SumSeq(terms), I(4)))

ADS(row, bl) ==
    Sub(I(1), nanmean([k \in 1..4 |->
                         Abs(Sub(row[AgeColumns[k]], bl.national_age_avg[k]))]))

LCS(row, bl) == deviation_score(row["literacy_rate_percent"], bl.national_literacy_avg)

TAS(row, bl) == deviation_score(row["last_election_turnout_percent"], bl.national_turnout_avg)

SHS(row, bl) ==
    normalize_partial(<<GBS(row, bl), ADS(row, bl), LCS(row, bl), TAS(row, bl)>>, SHS_WEIGHTS)

NMI(row, bl) == safe_div(Abs(row["net_migration"]), row["form6_addition_requests"])

F6R(row, bl) == safe_div(row["form6_addition_requests"], bl.national_form6_avg)

MPI(row, bl) == normalize_partial(<<NMI(row, bl), F6R(row, bl)>>, MPI_WEIGHTS)

RRD(row, bl) ==
    safe_div(safe_div(row["rejected"], row["total_requests"]), bl.national_rejection_rate_avg)

ODD(row, bl) ==
    safe_div(safe_div(row["objections_raised"], row["total_requests"]),
             bl.national_objection_rate_avg)

ALP(row, bl) == safe_div(row["cases_per_officer"], bl.national_max_cases_per_officer)

APS(row, bl) == normalize_partial(<<RRD(row, bl), ODD(row, bl), ALP(row, bl)>>, APS_WEIGHTS)

\* variant: the score is rounded without the pd.isna test
Emit_unchecked(x) == round4(x)

\* round(X, 4) if not pd.isna(X) else None
Emit(x) == IF ~isna(x) THEN round4(x) ELSE None

ScoreRecord(row, bl) ==
    [pc_id |-> row["pc_id"],
     state |-> row["state"],
     constituency_name |-> row["constituency_name"],
     statistical_health_score |-> Emit(SHS(row, bl)),
     migration_pressure_index |-> Emit(MPI(row, bl)),
     abuse_of_process_score |-> Emit(APS(row, bl))]

----------------------------------------------------------------------------
(* The script, statement by statement *)

NoFetch == [pc |-> "idle"]
NoGen == [pc |-> "idle"]
NoCall == [fn |-> "none", args |-> <<>>, res |-> None]
NoFrames == [migration_df |-> {}, system_df |-> {}, demo_df |-> <<>>]

AllFilesOk == \A f \in FileNames : files[f] = "ok"

\* variant: a migration or system-load file that cannot be read counts as empty
LoadTables_lenient ==
    /\ pc = "start"
    /\ files["DEMOGRAPHIC_FILE"] = "ok"
    /\ frames' = [migration_df |-> IF files["MIGRATION_FILE"] = "ok" THEN tables.migration ELSE {},
                  system_df |-> IF files["SYSTEM_LOAD_FILE"] = "ok" THEN tables.system ELSE {},
                  demo_df |-> tables.demo]
    /\ pc' = "loaded"
    /\ UNCHANGED <<files, tables, dropped, df, columns, baseline, i, results, written,
                   output, call, fetch, gen>>

\* lines 13-15: the three read_csv calls all succeed
LoadTables ==
    /\ pc = "start"
    /\ AllFilesOk
    /\ frames' = [migration_df |-> tables.migration, system_df |-> tables.system,
                  demo_df |-> tables.demo]
    /\ pc' = "loaded"
    /\ UNCHANGED <<files, tables, dropped, df, columns, baseline, i, results, written,
                   output, call, fetch, gen>>

\* lines 13-15: a read_csv call raises (file absent or unparseable), the script ends
LoadError ==
    /\ pc = "start"
    /\ ~AllFilesOk
    /\ pc' = "aborted"
    /\ UNCHANGED <<files, tables, frames, dropped, df, columns, baseline, i, results,
                   written, output, call, fetch, gen>>

\* lines 18-22
MergeTables ==
    /\ pc = "loaded"
    /\ df' = merge(merge(frames.demo_df, frames.migration_df, MigFields \ dropped),
                   frames.system_df, SysFields \ dropped)
    /\ columns' = KeyColumns \cup (NumericFields \ dropped)
    /\ pc' = "merged"
    /\ UNCHANGED <<files, tables, frames, dropped, baseline, i, results, written, output,
                   call, fetch, gen>>

\* lines 44-64
ComputeBaselines ==
    /\ pc = "merged"
    /\ BaselineColumns \subseteq columns
    /\ baseline' = Baselines(df)
    /\ pc' = "scoring"
    /\ UNCHANGED <<files, tables, frames, dropped, df, columns, i, results, written,
                   output, call, fetch, gen>>

\* lines 44-64: df[...] on a column df lacks raises KeyError, the script ends
BaselineKeyError ==
    /\ pc = "merged"
    /\ ~(BaselineColumns \subseteq columns)
    /\ pc' = "aborted"
    /\ UNCHANGED <<files, tables, frames, dropped, df, columns, baseline, i, results,
                   written, output, call, fetch, gen>>

\* lines 69-165: one iteration of the loop
ScoreRow ==
    /\ pc = "scoring"
    /\ i < Len(df)
    /\ RowColumns \subseteq columns
    /\ results' = Append(results, ScoreRecord(df[i + 1], baseline))
    /\ i' = i + 1
    /\ UNCHANGED <<pc, files, tables, frames, dropped, df, columns, baseline, written,
                   output, call, fetch, gen>>

\* lines 75-148: row[...] on a column the row lacks raises KeyError, the script ends
ScoreRowKeyError ==
    /\ pc = "scoring"
    /\ i < Len(df)
    /\ ~(RowColumns \subseteq columns)
    /\ pc' = "aborted"
    /\ UNCHANGED <<files, tables, frames, dropped, df, columns, baseline, i, results,
                   written, output, call, fetch, gen>>

\* lines 169-170
WriteOutput ==
    /\ pc = "scoring"
    /\ i = Len(df)
    /\ output' = results
    /\ written' = written + 1
    /\ pc' = "done"
    /\ UNCHANGED <<files, tables, frames, dropped, df, columns, baseline, i, results, call, fetch, gen>>

Next ==
    \/ LoadTables
    \/ LoadError
    \/ MergeTables
    \/ ComputeBaselines
    \/ BaselineKeyError
    \/ ScoreRow
    \/ ScoreRowKeyError
    \/ WriteOutput

----------------------------------------------------------------------------
(* Runs of the script: the files it finds *)

FileStates == {"ok", "absent", "unparseable"}

\* the values of an input field: a number or the missing marker
Vals == {NaN} \cup {I(x) : x \in 0..MaxVal}
FieldDomain(f) == IF f = "net_migration" THEN Vals \cup {I(-1)} ELSE Vals

DefaultVal(f) == IF f \in {"total_registered_voters", "total_requests"} THEN I(2) ELSE I(1)

PcIds == 1..MaxRows

Key(p, name) == [pc_id |-> p, state |-> "S", constituency_name |-> name]

\* a row of a file: the key and the file's fields, without the columns the file lacks
FileRow(p, name, fields, vals, drop) == Key(p, name) @@ [f \in fields \ drop |-> vals[f]]

DefaultVals == [f \in NumericFields |-> DefaultVal(f)]

\* sequences of distinct pc_ids, of every length up to n
RECURSIVE DistinctSeqs(_)
DistinctSeqs(n) ==
    IF n = 0 THEN {<<>>}
    ELSE LET shorter == DistinctSeqs(n - 1)
         IN  shorter \cup
             {Append(x[1], x[2]) : x \in {y \in shorter \X PcIds :
                                              /\ Len(y[1]) = n - 1
                                              /\ \A j \in 1..Len(y[1]) : y[1][j] # y[2]}}

\* keys a migration or system-load file may hold: each constituency under its own
\* name, and constituency 1 under another name as well
KeyPool == {<<p, p>> : p \in PcIds} \cup {<<1, 0>>}

StartWith(fs, tb, dr) ==
    /\ pc = "start"
    /\ files = fs
    /\ tables = tb
    /\ dropped = dr
    /\ frames = NoFrames
    /\ df = <<>>
    /\ columns = {}
    /\ baseline = NoBaseline
    /\ i = 0
    /\ results = <<>>
    /\ written = 0
    /\ output = <<>>
    /\ call = NoCall
    /\ fetch = NoFetch
    /\ gen = NoGen

AllOk == [f \in FileNames |-> "ok"]

\* complete tables of n constituencies, in pc_id order, with the given field values
FullTables(n, vals, drop) ==
    [demo      |-> [p \in 1..n |-> FileRow(p, p, DemoFields, vals[p], drop)],
     migration |-> {FileRow(p, p, MigFields, vals[p], drop) : p \in 1..n},
     system    |-> {FileRow(p, p, SysFields, vals[p], drop) : p \in 1..n}]

\* some of the files absent or unparseable
InitFiles ==
    \E fs \in [FileNames -> FileStates] :
        StartWith(fs, FullTables(MaxRows, [p \in PcIds |-> DefaultVals], {}), {})

\* one expected numeric column in none of the files
InitColumns ==
    \E f \in NumericFields, n \in 0..MaxRows :
        StartWith(AllOk, FullTables(n, [p \in PcIds |-> DefaultVals], {f}), {f})

\* demographics in any order, migration and system-load rows for any keys
InitJoin ==
    \E q \in DistinctSeqs(MaxRows), mk \in SUBSET KeyPool, sk \in SUBSET KeyPool :
        StartWith(AllOk,
                  [demo      |-> [j \in 1..Len(q) |->
                                     FileRow(q[j], q[j], DemoFields, DefaultVals, {})],
                   migration |-> {FileRow(x[1], x[2], MigFields, DefaultVals, {}) : x \in mk},
                   system    |-> {FileRow(x[1], x[2], SysFields, DefaultVals, {}) : x \in sk}],
                  {})

\* the field groups whose values range over FieldDomain while the others are held
Foci == {{"female_voters", "total_registered_voters"},
         {"age_18_25", "age_26_40"},
         {"age_41_60", "age_60_plus"},
         {"literacy_rate_percent", "last_election_turnout_percent"},
         {"net_migration", "form6_addition_requests"},
         {"rejected", "total_requests"},
         {"objections_raised", "total_requests"},
         {"cases_per_officer", "total_requests"}}

\* complete tables; the fields of one group take any values in the first row and
\* any values, the same in each, in the other rows; the other fields are all at
\* their default or all missing
InitValues ==
    \E n \in 1..MaxRows, foc \in Foci, held \in {"default", "missing"} :
        \E g1 \in [foc -> Vals \cup {I(-1)}], g2 \in [foc -> Vals \cup {I(-1)}] :
            /\ \A f \in foc : g1[f] \in FieldDomain(f) /\ g2[f] \in FieldDomain(f)
            /\ n = 1 => g2 = g1
            /\ StartWith(AllOk,
                         FullTables(n, [p \in 1..n |->
                                          [f \in NumericFields |->
                                              IF f \in foc THEN (IF p = 1 THEN g1[f] ELSE g2[f])
                                              ELSE IF held = "missing" THEN NaN
                                              ELSE DefaultVal(f)]], {}),
                         {})

Init == InitFiles \/ InitColumns \/ InitJoin \/ InitValues

Spec == Init /\ [][Next]_vars

----------------------------------------------------------------------------
(* Direct calls of the helpers *)

FnVals == {None, NaN, NpNaN} \cup {I(x) : x \in (-MaxArg)..MaxArg}
ScoreVals == {None, NaN} \cup {I(x) : x \in (-1)..MaxVal}
Weights == {I(w) : w \in 1..MaxW}

\* a helper is called once, from the idle script
PipelineIdle ==
    UNCHANGED <<pc, files, tables, frames, dropped, df, columns, baseline, i, results,
                written, output, fetch, gen>>

CallSafeDiv ==
    /\ call = NoCall
    /\ \E a \in FnVals, b \in FnVals :
          call' = [fn |-> "safe_div", args |-> <<a, b>>, res |-> safe_div(a, b)]
    /\ PipelineIdle

CallDeviationScore ==
    /\ call = NoCall
    /\ \E v \in FnVals, r \in FnVals :
          call' = [fn |-> "deviation_score", args |-> <<v, r>>,
                   res |-> deviation_score(v, r)]
    /\ PipelineIdle

CallNormalizePartial ==
    /\ call = NoCall
    /\ \E n \in 0..MaxLen :
          \E scores \in [1..n -> ScoreVals], weights \in [1..n -> Weights] :
              call' = [fn |-> "normalize_partial", args |-> <<scores, weights>>,
                       res |-> normalize_partial(scores, weights)]
    /\ PipelineIdle

InitFn == StartWith(AllOk, FullTables(0, <<>>, {}), {})

NextFn == CallSafeDiv \/ CallDeviationScore \/ CallNormalizePartial

SpecFn == InitFn /\ [][NextFn]_vars

----------------------------------------------------------------------------
(* fetch_constituencies.py, statement by statement *)

MaxExtra == 2

target_count == 543
KnownCount == 63
NumStates == 30

\* names and states are tuples: a name is <<kind, a, b>>, a state <<kind, a>>
India == <<"India", 0>>
ExtractedName(k) == <<"extracted", k, 0>>

\* the hardcoded list: KnownCount distinct (state, name) pairs
KNOWN_CONSTITUENCIES == [k \in 1..KnownCount |-> <<<<"known", k>>, <<"known", k, 0>>>>]

\* f"{state}:{name}"
SeenKey(state, name) == <<"key", state[1], state[2], name[1], name[2], name[3]>>

\* states[idx % len(states)] and the entry (state, f"{state} {idx}")
StateAt(idx) == <<"states", idx % NumStates>>
Numbered(idx) == <<StateAt(idx), <<"numbered", idx % NumStates, idx>>>>

\* f"PC{i:03d}": the decimal digits of i, zero-padded to three at least
RECURSIVE Digits(_)
Digits(n) == IF n < 10 THEN <<n>> ELSE Append(Digits(n \div 10), n % 10)

RECURSIVE ZeroPad(_, _)
ZeroPad(d, w) == IF Len(d) >= w THEN d ELSE ZeroPad(<<0>> \o d, w)

PcIdOf(n) == <<"PC">> \o ZeroPad(Digits(n), 3)

\* extended[:target_count]
Slice(s, n) == SubSeq(s, 1, IF Len(s) < n THEN Len(s) ELSE n)

FetchIdle ==
    UNCHANGED <<pc, files, tables, frames, dropped, df, columns, baseline, i, results,
                written, output, call, gen>>

\* the numbers of distinct names the search may give: few, and around the number
\* that fills the list to target_count together with the hardcoded entries
ExtractedCounts ==
    (0..MaxExtra) \cup
    {target_count - KnownCount + d : d \in (-MaxExtra)..MaxExtra}

\* extract_constituencies_from_search(): the keys of a dict, so distinct names
ExtractFromSearch ==
    /\ fetch.pc = "start"
    /\ \E n \in ExtractedCounts :
          fetch' = [fetch EXCEPT !.pc = "add_extracted",
                                 !.extracted_names = [k \in 1..n |-> ExtractedName(k)],
                                 !.k = 1]
    /\ FetchIdle

\* for name in extracted_names: added with state "India" unless seen
AddExtractedStep ==
    /\ fetch.pc = "add_extracted"
    /\ fetch.k <= Len(fetch.extracted_names)
    /\ LET name == fetch.extracted_names[fetch.k]
       IN  fetch' = IF name \in fetch.seen
                    THEN [fetch EXCEPT !.k = fetch.k + 1]
                    ELSE [fetch EXCEPT !.k = fetch.k + 1,
                                       !.all_constituencies =
                                           Append(fetch.all_constituencies, <<India, name>>),
                                       !.seen = fetch.seen \cup {name}]
    /\ FetchIdle

\* for state, name in KNOWN_CONSTITUENCIES: added unless its key is seen
AddKnownStep ==
    /\ \/ fetch.pc = "add_extracted" /\ fetch.k > Len(fetch.extracted_names)
       \/ fetch.pc = "add_known" /\ fetch.k <= KnownCount
    /\ LET k == IF fetch.pc = "add_known" THEN fetch.k ELSE 1
           e == KNOWN_CONSTITUENCIES[k]
           key == SeenKey(e[1], e[2])
       IN  fetch' = IF key \in fetch.seen
                    THEN [fetch EXCEPT !.pc = "add_known", !.k = k + 1]
                    ELSE [fetch EXCEPT !.pc = "add_known", !.k = k + 1,
                                       !.all_constituencies =
                                           Append(fetch.all_constituencies, e),
                                       !.seen = fetch.seen \cup {key}]
    /\ FetchIdle

\* generate_extended_constituencies: extended = list(base_list); idx = 1
ExtendStart ==
    /\ fetch.pc = "add_known"
    /\ fetch.k > KnownCount
    /\ fetch' = [fetch EXCEPT !.pc = "extending",
                               !.extended = fetch.all_constituencies,
                               !.idx = 1]
    /\ FetchIdle

\* one iteration of the while loop
ExtendStep ==
    /\ fetch.pc = "extending"
    /\ Len(fetch.extended) < target_count
    /\ fetch' = [fetch EXCEPT !.extended = Append(fetch.extended, Numbered(fetch.idx)),
                               !.idx = fetch.idx + 1]
    /\ FetchIdle

\* variant: the list is returned as it is, without the slice
ExtendReturn_unsliced ==
    /\ fetch.pc = "extending"
    /\ ~(Len(fetch.extended) < target_count)
    /\ fetch' = [fetch EXCEPT !.pc = "extended",
                               !.all_constituencies = fetch.extended]
    /\ FetchIdle

ExtendReturn ==
    /\ fetch.pc = "extending"
    /\ ~(Len(fetch.extended) < target_count)
    /\ fetch' = [fetch EXCEPT !.pc = "extended",
                               !.all_constituencies = Slice(fetch.extended, target_count)]
    /\ FetchIdle

\* rows with pc_id by position from 1, saved as the csv
BuildRows ==
    /\ fetch.pc = "extended"
    /\ fetch' = [fetch EXCEPT !.pc = "done",
                               !.rows = [n \in 1..Len(fetch.all_constituencies) |->
                                           [pc_id |-> PcIdOf(n),
                                            state |-> fetch.all_constituencies[n][1],
                                            constituency_name |-> fetch.all_constituencies[n][2]]]]
    /\ FetchIdle

InitFetch ==
    /\ pc = "start"
    /\ files = AllOk
    /\ tables = FullTables(0, <<>>, {})
    /\ dropped = {}
    /\ frames = NoFrames
    /\ df = <<>>
    /\ columns = {}
    /\ baseline = NoBaseline
    /\ i = 0
    /\ results = <<>>
    /\ written = 0
    /\ output = <<>>
    /\ call = NoCall
    /\ gen = NoGen
    /\ fetch = [pc |-> "start", extracted_names |-> <<>>, all_constituencies |-> <<>>,
                seen |-> {}, k |-> 0, extended |-> <<>>, idx |-> 0, rows |-> <<>>]

NextFetch ==
    \/ ExtractFromSearch
    \/ AddExtractedStep
    \/ AddKnownStep
    \/ ExtendStart
    \/ ExtendStep
    \/ ExtendReturn
    \/ BuildRows

SpecFetch == InitFetch /\ [][NextFetch]_vars

\* the script is one sequential process: it always executes its next statement
FairFetch == SpecFetch /\ WF_vars(NextFetch)

----------------------------------------------------------------------------
(* synthetic_generation.py: the migration row and the system-load row of one
   constituency *)

ANNUAL_FORM6_NATIONAL == 2000000

\* int(n * x) for n >= 0 and a fraction x of h hundredths
IntOfProduct(n, h) == (n * h) \div 100

Max2(a, b) == IF a > b THEN a ELSE b

\* fake.random_int(min, max): any integer of min..max; its two ends are drawn
random_int(lo, hi) == {lo, hi}

\* fake.pyfloat(min_value, max_value), in hundredths
pyfloat(lo, hi) == lo..hi

\* round(x, 1): to the nearest tenth, ties to even
round1(x) ==
    IF ~IsNum(x) THEN x
    ELSE LET num == x.n * 10
             q   == num \div x.d
             r2  == 2 * (num - q * x.d)
             up  == r2 > x.d \/ (r2 = x.d /\ q % 2 = 1)
         IN  R(IF up THEN q + 1 ELSE q, 10)

GenIdle ==
    UNCHANGED <<pc, files, tables, frames, dropped, df, columns, baseline, i, results,
                written, output, call, fetch>>

\* pc_df = pd.read_csv(CONSTITUENCIES_FILE); TOTAL_PCS = len(pc_df): the file of
\* fetch_constituencies.py, or a small one
ReadConstituencies ==
    /\ gen.pc = "start"
    /\ \E n \in {MaxRows, target_count} :
          gen' = [gen EXCEPT !.pc = "anchors", !.TOTAL_PCS = n]
    /\ GenIdle

\* one iteration of the migration loop; AVG_FORM6_PER_PC is
\* ANNUAL_FORM6_NATIONAL / TOTAL_PCS
GenerateMigrationRow ==
    /\ gen.pc = "anchors"
    /\ \E base_form6 \in random_int((ANNUAL_FORM6_NATIONAL * 4) \div (gen.TOTAL_PCS * 10),
                                     (ANNUAL_FORM6_NATIONAL * 2) \div gen.TOTAL_PCS),
          inward_ratio \in {35, 65} :
          \E form_7_deletions \in random_int(IntOfProduct(base_form6, 5),
                                             IntOfProduct(base_form6, 15)),
             form_8_corrections \in random_int(IntOfProduct(base_form6, 10),
                                               IntOfProduct(base_form6, 25)) :
             LET inward == IntOfProduct(base_form6, inward_ratio)
                 outward == base_form6 - inward
             IN  gen' = [gen EXCEPT !.pc = "migration_row",
                                    !.mig_row = [form6_addition_requests |-> base_form6,
                                                 form6_inward_migration |-> inward,
                                                 form6_outward_migration |-> outward,
                                                 net_migration |-> inward - outward,
                                                 form7_deletion_requests |-> form_7_deletions,
                                                 form8_correction_requests |-> form_8_corrections]]
    /\ GenIdle

\* one iteration of the system-load loop, on the migration row; the processing
\* time (a float drawn between bounds of log(total_requests + 1)) is left out
GenerateSystemRow ==
    /\ gen.pc = "migration_row"
    /\ LET total_requests == gen.mig_row.form6_addition_requests
                               + gen.mig_row.form7_deletion_requests
                               + gen.mig_row.form8_correction_requests
       IN  \E fa \in pyfloat(75, 92), fr \in pyfloat(3, 12) :
             LET approved == IntOfProduct(total_requests, fa)
                 rejected == IntOfProduct(total_requests, fr)
                 pending == Max2(0, total_requests - (approved + rejected))
             IN  \E objections \in (IF total_requests > 0
                                    THEN random_int(Max2(0, IntOfProduct(total_requests, 1)),
                                                    IntOfProduct(total_requests, 8))
                                    ELSE {0}),
                    fo \in {60, 95},
                    officers_assigned \in random_int(2, 12) :
                    LET objections_resolved == IntOfProduct(objections, fo)
                        freeze_min == IntOfProduct(pending, 30)
                        freeze_max == IntOfProduct(pending, 70)
                    IN  \E freeze_pending \in (IF pending > 0
                                               THEN random_int(freeze_min,
                                                               Max2(freeze_min, freeze_max))
                                               ELSE {0}) :
                          gen' = [gen EXCEPT
                                    !.pc = "system_row",
                                    !.sys_row =
                                       [total_requests |-> total_requests,
                                        approved |-> approved,
                                        rejected |-> rejected,
                                        pending |-> pending,
                                        objections_raised |-> objections,
                                        objections_resolved |-> objections_resolved,
                                        objections_pending |->
                                            Max2(0, objections - objections_resolved),
                                        freeze_period_pending |-> freeze_pending,
                                        officers_assigned |-> officers_assigned,
                                        cases_per_officer |->
                                            round1(R(total_requests, officers_assigned))]]
    /\ GenIdle

NoRow == [form6_addition_requests |-> 0]

InitGen ==
    /\ pc = "start"
    /\ files = AllOk
    /\ tables = FullTables(0, <<>>, {})
    /\ dropped = {}
    /\ frames = NoFrames
    /\ df = <<>>
    /\ columns = {}
    /\ baseline = NoBaseline
    /\ i = 0
    /\ results = <<>>
    /\ written = 0
    /\ output = <<>>
    /\ call = NoCall
    /\ fetch = NoFetch
    /\ gen = [pc |-> "start", TOTAL_PCS |-> 0, mig_row |-> NoRow, sys_row |-> NoRow]

NextGen == ReadConstituencies \/ GenerateMigrationRow \/ GenerateSystemRow

SpecGen == InitGen /\ [][NextGen]_vars

----------------------------------------------------------------------------
(* Properties *)

RECURSIVE IntSum(_, _)
IntSum(f, S) ==
    IF S = {} THEN 0
    ELSE LET x == CHOOSE y \in S : TRUE IN f[x] + IntSum(f, S \ {x})

\* both missing, or the same number
SameValue(a, b) == (isna(a) /\ isna(b)) \/ (IsNum(a) /\ a = b)

Scored == 1..Len(results)

\* C1: normalize_partial on parallel sequences of sub-scores and (positive) weights
\* returns missing when every sub-score is missing; otherwise it returns
\* sum(score*weight) / sum(weight) over exactly the positions whose score is
\* present (a present 0 is kept, the weight of a missing score is left out of the
\* denominator), and with exactly one present sub-score it returns that sub-score.
C1_WeightedPartialAverage ==
    call.fn = "normalize_partial" =>
        LET scores  == call.args[1]
            weights == call.args[2]
            present == {j \in 1..Len(scores) : scores[j].k = "num"}
            sw      == IntSum([j \in present |-> scores[j].n * weights[j].n], present)
            w       == IntSum([j \in present |-> weights[j].n], present)
        IN  /\ present = {} => isna(call.res)
            /\ present # {} => /\ IsNum(call.res)
                               /\ call.res.n * w = call.res.d * sw
            /\ \A j \in present : present = {j} => call.res = scores[j]

C1_Witness ==
    /\ call.fn = "normalize_partial"
    /\ Len(call.args[1]) = 3
    /\ call.args[1][1] = NaN
    /\ call.args[1][2] = I(0)
    /\ call.args[1][3] = I(2)
    /\ call.args[2] = <<I(2), I(1), I(2)>>
    /\ call.res = R(4, 3)

\* C2: every score of every output row is a finite number or the null marker
\* None (never NaN, never an infinity, never a raised error), and it is None
\* exactly when the composite is missing, so a missing score is not emitted as 0.
C2_ScoresFiniteOrNull ==
    /\ \A j \in Scored :
          /\ \A c \in {"statistical_health_score", "migration_pressure_index",
                        "abuse_of_process_score"} :
                IsNum(results[j][c]) \/ results[j][c] = None
          /\ results[j]["statistical_health_score"] = None <=> isna(SHS(df[j], baseline))
          /\ results[j]["migration_pressure_index"] = None <=> isna(MPI(df[j], baseline))
          /\ results[j]["abuse_of_process_score"] = None <=> isna(APS(df[j], baseline))
    /\ pc = "done" => output = results

C2_Witness ==
    /\ pc = "done"
    /\ IsInf(baseline.national_rejection_rate_avg)
    /\ \E j \in 1..Len(output) : output[j]["abuse_of_process_score"] = None
    /\ \E j \in 1..Len(output) : IsNum(output[j]["abuse_of_process_score"])

\* C3: with at most one row per constituency key in each file, and migration or
\* system-load rows possibly lacking, the output has as many rows as the
\* demographics file, in the same order, and every pc_id of the demographics
\* file is in exactly one output row.
C3_OneRowPerConstituency ==
    /\ pc \in {"merged", "scoring", "done"} => Len(df) = Len(tables.demo)
    /\ pc = "done" =>
          /\ Len(output) = Len(tables.demo)
          /\ \A j \in 1..Len(output) :
                \A c \in KeyColumns : output[j][c] = tables.demo[j][c]
          /\ \A j \in 1..Len(tables.demo) :
                Cardinality({m \in 1..Len(output) :
                                output[m]["pc_id"] = tables.demo[j]["pc_id"]}) = 1

C3_Witness ==
    /\ pc = "done"
    /\ Len(output) = 2
    /\ output[1]["pc_id"] = 2
    /\ output[2]["pc_id"] = 1
    /\ Cardinality(tables.migration) = 2
    /\ \A r \in tables.migration : r["pc_id"] = 1
    /\ tables.system = {}

\* the mean of the ratios num/den over the rows whose den is present and non-zero
MeanOfValidRatios(d, num, den) ==
    mean([j \in 1..Len(d) |->
            IF IsNum(d[j][den]) /\ d[j][den].n # 0 THEN NpDiv(d[j][num], d[j][den]) ELSE NaN])

\* C4: the rejection-rate and objection-rate baselines are the means of the
\* per-row ratios over the rows whose total_requests is present and non-zero; a
\* row whose total_requests is 0 or missing contributes nothing, whatever its
\* numerator.
C4_RateBaselinesSkipZeroDenominator ==
    baseline.computed =>
        /\ SameValue(baseline.national_rejection_rate_avg,
                     MeanOfValidRatios(df, "rejected", "total_requests"))
        /\ SameValue(baseline.national_objection_rate_avg,
                     MeanOfValidRatios(df, "objections_raised", "total_requests"))

\* C5: for a row with total_requests == 0 both RRD and ODD are missing and APS is
\* ALP alone: cases_per_officer / national_max_cases_per_officer (missing when
\* that is missing), which is what the row's abuse_of_process_score carries,
\* rounded to 4 places.
C5_ZeroRequestsFallsBackToLoad ==
    \A j \in Scored :
        PyEq(df[j]["total_requests"], I(0)) =>
            LET alp == ALP(df[j], baseline)
                c   == df[j]["cases_per_officer"]
                m   == baseline.national_max_cases_per_officer
            IN  /\ isna(RRD(df[j], baseline))
                /\ isna(ODD(df[j], baseline))
                /\ SameValue(APS(df[j], baseline), alp)
                /\ IsNum(c) /\ IsNum(m) /\ m.n # 0 =>
                        /\ IsNum(alp)
                        /\ alp.n * c.d * m.n = alp.d * c.n * m.d
                        /\ results[j]["abuse_of_process_score"] = round4(alp)
                /\ ~(IsNum(c) /\ IsNum(m) /\ m.n # 0) =>
                        results[j]["abuse_of_process_score"] = None

C5_Witness ==
    \E j \in Scored :
        /\ PyEq(df[j]["total_requests"], I(0))
        /\ df[j]["rejected"] = I(1)
        /\ results[j]["abuse_of_process_score"] = R(1, 2)

\* C6: if one of the three files is absent or unparseable the run aborts before a
\* baseline is computed or a row scored and the output file is not written; in
\* every run the output file is written at most once, after all rows are scored.
C6_LoadErrorIsFatal ==
    /\ ~AllFilesOk =>
          /\ pc \in {"start", "aborted"}
          /\ ~baseline.computed
          /\ i = 0 /\ results = <<>>
          /\ written = 0 /\ output = <<>>
    /\ written <= 1
    /\ written = 1 <=> pc = "done"
    /\ pc = "done" => i = Len(df) /\ Len(results) = Len(df) /\ output = results

C6_Witness ==
    /\ pc = "aborted"
    /\ files["MIGRATION_FILE"] = "ok"
    /\ files["SYSTEM_LOAD_FILE"] = "absent"
    /\ files["DEMOGRAPHIC_FILE"] = "ok"
    /\ Len(tables.demo) > 0

\* C7: when the joined table lacks expected numeric columns but has the key, the
\* run does not fail and still produces an output row for every constituency.
C7_MissingColumnNotFatal ==
    (AllFilesOk /\ dropped # {}) =>
        /\ pc # "aborted"
        /\ pc = "done" => Len(output) = Len(tables.demo)

\* C8: safe_div(a, b), each argument a number, None or NaN, never raises; it
\* returns missing when b is 0, None or NaN, and a / b otherwise (missing when a
\* is missing).
C8_SafeDivNeverRaises ==
    call.fn = "safe_div" =>
        LET a == call.args[1]
            b == call.args[2]
        IN  /\ ~IsRaise(call.res)
            /\ (isna(b) \/ PyEq(b, I(0))) => isna(call.res)
            /\ (IsNum(b) /\ b.n # 0 /\ isna(a)) => isna(call.res)
            /\ (IsNum(b) /\ b.n # 0 /\ IsNum(a)) =>
                   IsNum(call.res) /\ call.res.n * b.n = call.res.d * a.n

\* C9: deviation_score(value, reference) is missing exactly when value is
\* missing, reference is missing or reference == 0; otherwise it is
\* 1 - |value - reference| / reference, unclamped: 1 when value == reference,
\* negative when value is more than twice a positive reference.
C9_DeviationScore ==
    call.fn = "deviation_score" =>
        LET v == call.args[1]
            r == call.args[2]
        IN  /\ isna(call.res) <=> (isna(v) \/ isna(r) \/ PyEq(r, I(0)))
            /\ ~isna(call.res) =>
                  /\ IsNum(call.res)
                  /\ call.res.n * r.n = call.res.d * (r.n - AbsInt(v.n - r.n))
                  /\ v = r => call.res = I(1)
                  /\ (r.n > 0 /\ v.n > 2 * r.n) => call.res.n < 0

C9_Witness ==
    /\ call.fn = "deviation_score"
    /\ call.args = <<I(3), I(1)>>
    /\ call.res = I(-1)

\* the row of C10: half the voters female, every age bracket, literacy and
\* turnout equal to the national average
RoundTripRow(row, bl) ==
    /\ PyEq(NpDiv(row["female_voters"], row["total_registered_voters"]), R(1, 2))
    /\ \A k \in 1..4 : PyEq(row[AgeColumns[k]], bl.national_age_avg[k])
    /\ PyEq(row["literacy_rate_percent"], bl.national_literacy_avg)
    /\ PyEq(row["last_election_turnout_percent"], bl.national_turnout_avg)

\* C10: a row with female_voters / total_registered_voters == 0.5 and every age
\* bracket, literacy and turnout equal to the national average has a
\* statistical_health_score of exactly 1.
C10_RoundTripScoresOne ==
    \A j \in Scored :
        RoundTripRow(df[j], baseline) =>
            /\ SHS(df[j], baseline) = I(1)
            /\ results[j]["statistical_health_score"] = I(1)

C10_Witness ==
    /\ Len(results) = 2
    /\ RoundTripRow(df[1], baseline)
    /\ ~RoundTripRow(df[2], baseline)
    /\ baseline.national_literacy_avg = I(2)
    /\ results[1]["statistical_health_score"] = I(1)

\* the orders in which n rows can be presented
Perms(n) == {q \in [1..n -> 1..n] : \A a, b \in 1..n : q[a] = q[b] => a = b}

Reordered(d, q) == [j \in 1..Len(d) |-> d[q[j]]]

SameFields(a, b) == \A f \in NumericFields : a[f] = b[f]

ScoreColumns == {"statistical_health_score", "migration_pressure_index",
                 "abuse_of_process_score"}

\* at the end of a run: the baselines, and with them every row's scores, are the
\* same for every order of the rows, and rows with the same fields have the same
\* scores
C11_OrderIndependent ==
    pc = "done" =>
        /\ \A q \in Perms(Len(df)) : Baselines(Reordered(df, q)) = baseline
        /\ \A j \in Scored : ScoreRecord(df[j], baseline) = results[j]
        /\ \A j, k \in Scored :
              SameFields(df[j], df[k]) => \A c \in ScoreColumns : results[j][c] = results[k][c]

\* one iteration of the loop appends the record computed from its own row and
\* the baselines, and changes neither the baselines, the table nor the records
\* of the rows before
C11_StepIsPure ==
    (pc = "scoring" /\ pc' = "scoring") =>
        /\ baseline' = baseline
        /\ df' = df
        /\ Len(results') = Len(results) + 1
        /\ SubSeq(results', 1, Len(results)) = results
        /\ results'[Len(results')] = ScoreRecord(df[i + 1], baseline)

RECURSIVE RatSum(_, _)
RatSum(f, S) ==
    IF S = {} THEN I(0)
    ELSE LET x == CHOOSE y \in S : TRUE IN Add(f[x], RatSum(f, S \ {x}))

\* the age brackets a row has a value for
PresentBrackets(row) == {k \in 1..4 : IsNum(row[AgeColumns[k]])}

AgeDeviation(row) ==
    [k \in 1..4 |-> Abs(Sub(row[AgeColumns[k]], baseline.national_age_avg[k]))]

\* C12: for every scored row, ADS = 1 - mean(|age_bracket_i - national average i|)
\* over the brackets the row has a value for; a national average of 0 still
\* gives a value (no zero-reference guard); with all four brackets missing ADS
\* is missing and SHS is the weighted average of GBS, LCS and TAS alone.
C12_AgeDistributionScore ==
    \A j \in Scored :
        LET row == df[j]
            present == PresentBrackets(row)
            ads == ADS(row, baseline)
        IN  /\ present = {} =>
                  /\ isna(ads)
                  /\ results[j]["statistical_health_score"] =
                        Emit(normalize_partial(
                                <<GBS(row, baseline), LCS(row, baseline), TAS(row, baseline)>>,
                                <<R(25, 100), R(20, 100), R(25, 100)>>))
            /\ present # {} =>
                  /\ IsNum(ads)
                  /\ ads = Sub(I(1), NpDiv(RatSum(AgeDeviation(row), present),
                                           I(Cardinality(present))))

\* a row with one bracket missing and another one off its national average by 1:
\* the mean is over the three brackets present
C12_Witness ==
    /\ pc = "done"
    /\ Len(results) = 2
    /\ PresentBrackets(df[1]) = {2, 3, 4}
    /\ baseline.national_age_avg[2] = I(1)
    /\ df[1]["age_26_40"] = I(0)
    /\ ADS(df[1], baseline) = R(2, 3)
    /\ results[1]["statistical_health_score"] = R(9, 10)

\* the entry the combined list has at position n: the extracted names with state
\* India, then the hardcoded entries, then the numbered entries of the padding
ExpectedEntry(n) ==
    LET e == Len(fetch.extracted_names)
    IN  IF n <= e THEN <<India, fetch.extracted_names[n]>>
        ELSE IF n <= e + KnownCount THEN KNOWN_CONSTITUENCIES[n - e]
        ELSE Numbered(n - e - KnownCount)

\* the number a pc_id stands for: "PC" and exactly three decimal digits
PcIdNumber(id) ==
    IF Len(id) = 4 /\ id[1] = "PC" /\ \A k \in 2..4 : id[k] \in 0..9
    THEN 100 * id[2] + 10 * id[3] + id[4]
    ELSE -1

C13_RowsWhenDone ==
    fetch.pc = "done" =>
        /\ Len(fetch.rows) = target_count
        /\ \A n \in 1..Len(fetch.rows) :
              /\ PcIdNumber(fetch.rows[n].pc_id) = n
              /\ <<fetch.rows[n].state, fetch.rows[n].constituency_name>> = ExpectedEntry(n)
        /\ \A n, m \in 1..Len(fetch.rows) :
              fetch.rows[n].pc_id = fetch.rows[m].pc_id => n = m

\* C13: for any number of extracted names (none, too few or too many to reach
\* 543 with the hardcoded list) the script ends, with exactly 543 rows: the
\* padding loop terminates, a longer list is cut to its first 543 entries, and the
\* rows carry PC001..PC543 in list order, each pc_id once.
C13_Exactly543Rows == [](C13_RowsWhenDone) /\ <>(fetch.pc = "done")

\* a run whose combined list is longer than 543 entries and was cut
C13_Witness ==
    /\ fetch.pc = "done"
    /\ Len(fetch.extracted_names) + KnownCount > target_count
    /\ Len(fetch.extended) > target_count
    /\ Len(fetch.rows) = target_count
    /\ fetch.rows[target_count].pc_id = <<"PC", 5, 4, 3>>
    /\ fetch.rows[1].pc_id = <<"PC", 0, 0, 1>>

\* C14: in every system-load row, for every approval fraction in [0.75, 0.92] and
\* rejection fraction in [0.03, 0.12], the counts are non-negative and
\* approved + rejected + pending = total_requests.
C14_CountsAccountForRequests ==
    gen.pc = "system_row" =>
        /\ gen.sys_row.approved >= 0
        /\ gen.sys_row.rejected >= 0
        /\ gen.sys_row.pending >= 0
        /\ gen.sys_row.approved + gen.sys_row.rejected + gen.sys_row.pending
              = gen.sys_row.total_requests

====
